---- MODULE Spec2Model ----
(***************************************************************************)
(* A model of mxget/provider/netease.py: the NetEase client's public       *)
(* operations (search_song, get_song, get_artist, get_album, get_playlist, *)
(* get_song_url, get_song_lyric), their error classification, the playlist *)
(* pagination fan-out, the bulk URL enrichment and the lyric fan-out       *)
(* behind asyncio.Semaphore(32).                                           *)
(*                                                                         *)
(* Spec: one behaviour is one public operation of one client.  The         *)
(* provider is the environment: every HTTP call ends with one of Outcomes, *)
(* and a success response has one of the shapes enumerated below.          *)
(* SpecGate, SpecGateLive: the lyric fan-out over more songs than permits, *)
(* told by counts.  SpecClient: the requests of one client through         *)
(* request(), with its cookies and the ids get_song_raw sends.             *)
(*                                                                         *)
(* Encoding of Python values: NULL is None (also: key not set, which       *)
(* dict.get reads as None), EMPTY is the empty string, a positive integer  *)
(* is a non-empty string (ids, urls, lyrics); the names _resolve strips    *)
(* are sequences of characters.  Python index k of a list is index k + 1.  *)
(***************************************************************************)
EXTENDS Integers, Sequences, FiniteSets, TLC

\* ---------------------------------------------------------------- bounds

\* the most songs the provider describes in the responses of one operation
MaxSongs == 2

\* the most pagination chunks a playlist needs
MaxChunks == 2

\* the most songs handed to one lyric fan-out in the admission-gate model
MaxGateSongs == 34

\* ------------------------------------------------------ program constants

SONG_REQUEST_LIMIT == 1000

SEM_VALUE == 32

NULL == 0

EMPTY == -1

Ops ==
    {"search_song", "get_song", "get_artist", "get_album", "get_playlist",
     "get_song_url", "get_song_lyric"}

\* the operations that resolve songs through the URL and lyric enrichment
BulkOps == {"get_song", "get_artist", "get_album", "get_playlist"}

\* the composite operations
CompositeOps == {"get_artist", "get_album", "get_playlist"}

\* ------------------------------------------------- the HTTP call outcomes

\* What one HTTP call can end with: a parsed body with code 200, a transport
\* failure or a timeout of session.request, a body json() cannot parse, a
\* body without the code field, a code other than 200 with or without msg.
Outcomes ==
    {"ok", "transport", "timeout", "unparsable", "nocode", "err_msg", "err_nomsg"}

Failures == Outcomes \ {"ok"}

\* the exception `await self.request(...)` raises inside the first try
RequestRaises(o) ==
    CASE o = "transport" -> "ClientError"
      [] o = "timeout" -> "TimeoutError"
      [] OTHER -> "none"

\* except (aiohttp.ClientError, asyncio.TimeoutError): raise RequestError
CatchRequest(e) ==
    IF e \in {"ClientError", "TimeoutError"} THEN "RequestError" ELSE e

\* the exception the body of the second try raises: json() on a body that
\* does not parse, resp['code'] on a body without code, and for a code other
\* than 200 the ResponseError built from resp['msg'] (a KeyError when msg is
\* missing) or from resp.get('msg', resp['code'])
DecodeRaises(o, msgByGet) ==
    CASE o = "unparsable" -> "JSONDecodeError"
      [] o = "nocode" -> "KeyError"
      [] o = "err_msg" -> "ResponseError"
      [] o = "err_nomsg" -> IF msgByGet THEN "ResponseError" ELSE "KeyError"
      [] OTHER -> "none"

MutCatchDecode(e) ==
    IF e \in {"ClientResponseError", "JSONDecodeError"} THEN "ResponseError" ELSE e

\* except (aiohttp.ClientResponseError, json.JSONDecodeError, KeyError):
\*     raise ResponseError
CatchDecode(e) ==
    IF e \in {"ClientResponseError", "JSONDecodeError", "KeyError"}
    THEN "ResponseError" ELSE e

\* the two try blocks every *_raw method is made of; "none" when it returns
RawError(o, msgByGet) ==
    LET e == CatchRequest(RequestRaises(o))
    IN  IF e # "none" THEN e ELSE CatchDecode(DecodeRaises(o, msgByGet))

search_song_raw(o) == RawError(o, FALSE)

get_song_raw(o) == RawError(o, FALSE)

get_song_url_raw(o) == RawError(o, FALSE)

get_song_lyric_raw(o) == RawError(o, FALSE)

get_artist_raw(o) == RawError(o, TRUE)

get_album_raw(o) == RawError(o, TRUE)

get_playlist_raw(o) == RawError(o, FALSE)

\* the *_raw method behind the primary fetch of each public operation
PrimaryRaw(oper, o) ==
    CASE oper = "search_song" -> search_song_raw(o)
      [] oper = "get_song" -> get_song_raw(o)
      [] oper = "get_artist" -> get_artist_raw(o)
      [] oper = "get_album" -> get_album_raw(o)
      [] oper = "get_playlist" -> get_playlist_raw(o)
      [] oper = "get_song_url" -> get_song_url_raw(o)
      [] oper = "get_song_lyric" -> get_song_lyric_raw(o)

\* ------------------------------------------------------------ raw songs

\* a song record as the provider sends it: no url and no lyric key yet.  Its
\* name, artist-list and album fields are read only when the operation
\* resolves its songs; they are drawn there (SongFields).
RawSong(id) == [id |-> id, url |-> NULL, lyric |-> NULL]

\* the lyric text the provider holds for a song
LyricText(id) == id

\* texts are sequences of characters: a name, the same name between spaces,
\* a text of one space, the empty text
Text == <<"a">>

Padded == <<" ", "a", " ">>

Blank == <<" ">>

NoText == <<>>

\* the characters str.strip() removes
Whitespace == {" "}

\* s.strip(): s without its leading and trailing whitespace
RECURSIVE Strip(_)
Strip(s) ==
    IF s = <<>> THEN s
    ELSE IF Head(s) \in Whitespace THEN Strip(Tail(s))
    ELSE IF s[Len(s)] \in Whitespace THEN Strip(SubSeq(s, 1, Len(s) - 1))
    ELSE s

\* '/'.join(names)
RECURSIVE Join(_)
Join(names) ==
    IF names = <<>> THEN <<>>
    ELSE IF Len(names) = 1 THEN names[1]
    ELSE names[1] \o <<"/">> \o Join(Tail(names))

\* the keys _resolve and search_song index in a song record: name, the
\* artist list (ar, artists in a search record) and the album (al, album)
SongKeys == {"name", "ar", "al"}

\* a record with every key, padded names and two artists
FullFields ==
    [keys |-> SongKeys, name |-> Padded, ar |-> <<Padded, Text>>, al |-> Padded]

\* what the provider puts in the name, artist-list and album fields of the
\* song records of one response: all there, or a blank name, an empty
\* artist list or an empty album name, or one of the keys missing
SongFields ==
    {FullFields,
     [FullFields EXCEPT !.name = Blank],
     [FullFields EXCEPT !.ar = <<>>],
     [FullFields EXCEPT !.al = NoText]}
    \cup {[FullFields EXCEPT !.keys = SongKeys \ {k}] : k \in SongKeys}

\* the same with the entity of a composite (artist, album, playlist): it
\* has its name, or has none and the song records are full
Fields ==
    {[song |-> f, named |-> TRUE] : f \in SongFields}
    \cup {[song |-> FullFields, named |-> FALSE]}

\* the song records with their name, artist-list and album fields
WithFields(songs, f) ==
    [i \in 1..Len(songs) |->
        [id |-> songs[i].id, url |-> songs[i].url, lyric |-> songs[i].lyric,
         keys |-> f.keys, name |-> f.name, ar |-> f.ar, al |-> f.al]]

\* the exception _resolve raises: song['name'], song['ar'] or song['al'] of a
\* record without that key
ResolveRaises(songs) ==
    IF \E i \in 1..Len(songs) : songs[i].keys # SongKeys THEN "KeyError" ELSE "none"

\* _resolve: the public Song of each raw song, in order
_resolve(songs) ==
    [i \in 1..Len(songs) |->
        [id |-> songs[i].id,
         name |-> Strip(songs[i].name),
         artist |-> Join([a \in 1..Len(songs[i].ar) |-> Strip(songs[i].ar[a])]),
         album |-> Strip(songs[i].al),
         lyric |-> songs[i].lyric,
         url |-> songs[i].url]]

SeqMax(S) == CHOOSE x \in S : \A y \in S : y <= x

\* the provider's song-detail answer for ids: the songs of its catalogue
\* among them, in the order asked
Details(ids, cat) ==
    LET s == SelectSeq(ids, LAMBDA x : x \in cat)
    IN  [i \in 1..Len(s) |-> RawSong(s[i])]

\* ------------------------------------------------- the success responses

\* a code-200 response none of whose entity fields is present
NoResp ==
    [outcome |-> "ok", key |-> FALSE, songs |-> <<>>, total |-> 0, nids |-> 0,
     val |-> NULL]

\* a list of up to MaxSongs songs, ids 1..n
SongLists == {[i \in 1..n |-> RawSong(i)] : n \in 0..MaxSongs}

\* search, song, artist and album: the key holding the songs is missing, or
\* holds a list
SongsResponses ==
    {NoResp} \cup {[NoResp EXCEPT !.key = TRUE, !.songs = l] : l \in SongLists}

\* the trackCount values of the playlists
Totals ==
    {0, 1, SONG_REQUEST_LIMIT, SONG_REQUEST_LIMIT + 1}
    \cup {k * SONG_REQUEST_LIMIT + 500 : k \in 1..MaxChunks}
    \cup {(MaxChunks + 1) * SONG_REQUEST_LIMIT}

\* the ids whose songs the provider may still hold: the first of each page
CandidateIds == {k * SONG_REQUEST_LIMIT + 1 : k \in 0..MaxChunks}

Catalogues == {c \in SUBSET CandidateIds : Cardinality(c) <= MaxSongs}

\* trackIds of a playlist holds one id per track: the id at Python index k
TrackId(k) == k + 1

\* the ids at the Python indices [i, j) of trackIds
TrackIds(i, j) == [x \in 1..(j - i) |-> TrackId(i + x - 1)]

Min(a, b) == IF a < b THEN a ELSE b

\* the lengths of the trackIds list of a playlist of t tracks: one id per
\* track, or one id short (get_playlist reads the list only past the limit)
IdCounts(t) == {t} \cup (IF t > SONG_REQUEST_LIMIT THEN {t - 1} ELSE {})

\* playlist: the playlist fields are missing, or trackCount, trackIds (its
\* length nids) and tracks (the songs the provider holds among the first
\* page); the songs the provider holds are among the playlist's tracks
PlaylistResponses(cat) ==
    {NoResp} \cup
    UNION {{[NoResp EXCEPT !.key = TRUE, !.total = t, !.nids = n,
                !.songs = Details(TrackIds(0, Min(t, SONG_REQUEST_LIMIT)), cat)] :
             n \in IdCounts(t)} : t \in {x \in Totals : \A id \in cat : id <= TrackId(x - 1)}}

\* song-URL and lyric: the key path (data[0].url, lrc.lyric) is missing, or
\* holds null, the empty string or a text
ValueResponses(text) ==
    {NoResp} \cup {[NoResp EXCEPT !.key = TRUE, !.val = v] : v \in {NULL, EMPTY, text}}

Responses(oper, cat) ==
    CASE oper = "get_playlist" -> PlaylistResponses(cat)
      [] oper = "get_song_url" -> ValueResponses(1)
      [] oper = "get_song_lyric" -> ValueResponses(LyricText(1))
      [] OTHER -> SongsResponses

\* the bulk URL answer: data is null or missing, or a list of entries.  Each
\* song has no entry, an entry of code 200 or an entry of code 404 (entry.url
\* names the song's place); the list may end with a second entry for the
\* first song.
EntryChoice == {"none", "ok", "bad"}

EntryCode(c) == IF c = "ok" THEN 200 ELSE 404

RECURSIVE Entries(_, _, _)
Entries(songs, f, i) ==
    IF i > Len(songs) THEN <<>>
    ELSE (IF f[i] = "none" THEN <<>>
          ELSE <<[id |-> songs[i].id, code |-> EntryCode(f[i]), url |-> i]>>)
         \o Entries(songs, f, i + 1)

UrlData(songs) ==
    {Entries(songs, f, 1) \o
        (IF d = "none" \/ songs = <<>> THEN <<>>
         ELSE <<[id |-> songs[1].id, code |-> EntryCode(d), url |-> Len(songs) + 1]>>) :
        f \in [1..Len(songs) -> EntryChoice], d \in EntryChoice}

NoUrlResp == [outcome |-> "ok", hasData |-> FALSE, data |-> <<>>]

UrlResponses(songs) ==
    {NoUrlResp} \cup {[NoUrlResp EXCEPT !.hasData = TRUE, !.data = l] : l \in UrlData(songs)}

\* ----------------------------------------------------------------- state

VARIABLES
    op,         \* the public operation of this behaviour
    catalogue,  \* the ids whose song details the provider still holds
    pc,         \* where the operation's coroutine is: "primary", "chunks",
                \* "url", "lyric" (awaiting that call or gather), "done", "raised"
    error,      \* the exception the operation raised, "none" otherwise
    resp,       \* how the primary call ended, and its response
    tracks,     \* the raw songs being enriched (_song, _songs, tracks)
    tasks,      \* get_playlist's tasks: one per pagination chunk
    overtaken,  \* whether a chunk call overtaken before one issued earlier
    url_resp,   \* how the bulk URL call ended, and its response
    workers,    \* _patch_song_lyric's tasks: one per song
    sem,        \* the value of _patch_song_lyric's asyncio.Semaphore
    result,     \* the value the operation returned
    calls,      \* HTTP calls issued so far, per endpoint
    gate,       \* the admission-gate model of _patch_song_lyric (SpecGate)
    client      \* the client's cookies and its last request (SpecClient)

vars ==
    <<op, catalogue, pc, error, resp, tracks, tasks, overtaken, url_resp,
      workers, sem, result, calls, gate, client>>

NoResult == [kind |-> "none", count |-> 0, songs |-> <<>>, value |-> NULL]

NoCalls == [primary |-> 0, chunk |-> 0, url |-> 0, lyric |-> 0]

NoGate ==
    [n |-> 0, waiting |-> 0, inflight |-> 0, done |-> 0, sem |-> 0, barrier |-> "none"]

\* no request sent yet
NoRequest ==
    [endpoint |-> "none", cookies |-> {}, auth |-> FALSE, given |-> <<>>,
     ids |-> <<>>, chunk |-> FALSE]

NoClient == [cookies |-> {}, auth |-> FALSE, sent |-> NoRequest]

\* a public operation is called and its primary request is on its way
Init ==
    /\ op \in Ops
    /\ catalogue \in (IF op = "get_playlist" THEN Catalogues ELSE {{}})
    /\ pc = "primary"
    /\ error = "none"
    /\ resp = [NoResp EXCEPT !.outcome = "pending"]
    /\ tracks = <<>>
    /\ tasks = <<>>
    /\ overtaken = FALSE
    /\ url_resp = [NoUrlResp EXCEPT !.outcome = "pending"]
    /\ workers = <<>>
    /\ sem = 0
    /\ result = NoResult
    /\ calls = [NoCalls EXCEPT !.primary = 1]
    /\ gate = NoGate
    /\ client = NoClient

\* ------------------------------------------- what each operation computes

Parsed(e, songs) == [error |-> e, songs |-> songs]

MutSearchNoEmptyCheck(r) ==
    IF ~r.key THEN Parsed("DataError", <<>>) ELSE Parsed("none", r.songs)

\* search_song: resp['result']['songs'], DataError when missing or empty
search_song_parse(r) ==
    IF ~r.key THEN Parsed("DataError", <<>>)
    ELSE IF r.songs = <<>> THEN Parsed("DataError", <<>>)
    ELSE Parsed("none", r.songs)

\* search_song: the SearchResult built from the songs, one SearchSongData
\* each
SearchResult(songs) ==
    [kind |-> "SearchResult", count |-> Len(songs),
     songs |-> [i \in 1..Len(songs) |->
                   [id |-> songs[i].id,
                    name |-> Strip(songs[i].name),
                    artist |-> Join([a \in 1..Len(songs[i].ar) |-> Strip(songs[i].ar[a])]),
                    album |-> Strip(songs[i].al)]],
     value |-> NULL]

\* get_song: resp['songs'][0], DataError on KeyError and on IndexError
get_song_parse(r) ==
    IF ~r.key THEN Parsed("DataError", <<>>)
    ELSE IF Len(r.songs) = 0 THEN Parsed("DataError", <<>>)
    ELSE Parsed("none", <<r.songs[1]>>)

\* get_artist: resp['hotSongs'], DataError when missing or empty
get_artist_parse(r) ==
    IF ~r.key THEN Parsed("DataError", <<>>)
    ELSE IF r.songs = <<>> THEN Parsed("DataError", <<>>)
    ELSE Parsed("none", r.songs)

\* get_album: resp['songs'], DataError when missing or empty
get_album_parse(r) ==
    IF ~r.key THEN Parsed("DataError", <<>>)
    ELSE IF r.songs = <<>> THEN Parsed("DataError", <<>>)
    ELSE Parsed("none", r.songs)

\* get_playlist: trackCount, tracks and trackIds, DataError when one is
\* missing or when trackCount is 0
get_playlist_parse(r) ==
    IF ~r.key THEN Parsed("DataError", <<>>)
    ELSE IF r.total = 0 THEN Parsed("DataError", <<>>)
    ELSE Parsed("none", r.songs)

MutSendAll(ids) == ids

\* get_song_raw: only the first _SONG_REQUEST_LIMIT ids are sent
SongRawIds(ids) ==
    IF Len(ids) > SONG_REQUEST_LIMIT THEN SubSeq(ids, 1, SONG_REQUEST_LIMIT) ELSE ids

\* a task of get_playlist, created by ensure_future(patch_tracks(*song_ids))
\* for the chunk range(i, j); its call is in flight once get_playlist awaits
NewTask(i, j) ==
    [i |-> i, j |-> j, state |-> "inflight", exc |-> "none", songs |-> <<>>]

\* song_ids = [track_ids[k]['id'] for k in range(i, j)] of a task
song_ids(task) == TrackIds(task.i, task.j)

\* get_playlist's loop over range(i, total, _SONG_REQUEST_LIMIT): one task
\* per chunk, for the Python indices [i, j) of trackIds
RECURSIVE BuildTasks(_, _)
BuildTasks(i, total) ==
    IF i >= total THEN <<>>
    ELSE LET j0 == i + SONG_REQUEST_LIMIT
             j == IF j0 > total THEN total ELSE j0
         IN  <<NewTask(i, j)>> \o BuildTasks(i + SONG_REQUEST_LIMIT, total)

MutTasksFromZero(r) ==
    IF r.total > SONG_REQUEST_LIMIT THEN BuildTasks(0, r.total) ELSE <<>>

\* the tasks get_playlist creates for a response: none unless trackCount
\* exceeds the limit, else those of range(_SONG_REQUEST_LIMIT, total, ...)
PlaylistTasks(r) ==
    IF r.total > SONG_REQUEST_LIMIT
    THEN BuildTasks(SONG_REQUEST_LIMIT, r.total)
    ELSE <<>>

RECURSIVE MutExtendReversed(_, _, _)
MutExtendReversed(tr, ts, k) ==
    IF k > Len(ts) THEN tr
    ELSE MutExtendReversed(tr, ts, k + 1)
         \o (IF ts[k].exc = "none" THEN ts[k].songs ELSE <<>>)

\* track_ids[k] for k in range(i, j) raises IndexError when the list is
\* shorter than j: whether the loop over the chunks raises it
ChunkLoopRaises(r) ==
    IF r.total > SONG_REQUEST_LIMIT /\ r.nids < r.total THEN "IndexError" ELSE "none"

\* the tasks the loop has created by then: those of the chunks before the
\* first one that reaches past the list
CreatedTasks(ts, nids) == SelectSeq(ts, LAMBDA t : t.j <= nids)

\* for task in tasks: if not task.exception(): tracks.extend(...), from task k
RECURSIVE ExtendTracks(_, _, _)
ExtendTracks(tr, ts, k) ==
    IF k > Len(ts) THEN tr
    ELSE ExtendTracks(
            IF ts[k].exc = "none" THEN tr \o ts[k].songs ELSE tr, ts, k + 1)

MutUrlMapAnyCode(data, k) ==
    [id \in {data[x].id : x \in 1..k} |->
        data[SeqMax({x \in 1..k : data[x].id = id})].url]

\* _patch_song_url's url_map after the first k entries of resp['data']
RECURSIVE UrlMap(_, _)
UrlMap(data, k) ==
    IF k = 0 THEN <<>>
    ELSE LET m == UrlMap(data, k - 1)
             i == data[k]
         IN  IF i.code = 200
             THEN [id \in DOMAIN m \cup {i.id} |-> IF id = i.id THEN i.url ELSE m[id]]
             ELSE m

\* url_map.get(id)
MapGet(m, id) == IF id \in DOMAIN m THEN m[id] ELSE NULL

\* _patch_song_url after a successful call: the songs with their url set,
\* or left alone when resp.get('data') is None
_patch_song_url(songs, u) ==
    IF ~u.hasData THEN songs
    ELSE LET url_map == UrlMap(u.data, Len(u.data))
         IN  [i \in 1..Len(songs) |->
                [songs[i] EXCEPT !.url = MapGet(url_map, songs[i].id)]]

\* get_song_url: resp['data'][0]['url'], None when missing or falsy
get_song_url(r) ==
    IF ~r.key THEN NULL ELSE IF r.val \in {NULL, EMPTY} THEN NULL ELSE r.val

\* get_song_lyric: resp['lrc']['lyric'], None when missing or falsy
get_song_lyric(r) ==
    IF ~r.key THEN NULL ELSE IF r.val \in {NULL, EMPTY} THEN NULL ELSE r.val

\* ------------------------------------------------------ the admission gate

MutNeverLocked(value) == TRUE

\* asyncio.Semaphore: acquire() returns at once unless the value is 0
CanAcquire(value) == value > 0

MutLeakOnException(value, raised) == IF raised THEN value ELSE value + 1

\* `async with sem` is left, by the end of its body or by an exception:
\* Semaphore.release() gives the permit back either way
LeaveSem(value, raised) == value + 1

NewWorker == [state |-> "waiting", exc |-> "none"]

\* the waiting workers enter `async with sem` in the order they were created,
\* as long as the semaphore lets them, and issue their lyric call
RECURSIVE Admit(_, _, _)
Admit(ws, value, i) ==
    IF i > Len(ws) \/ ~CanAcquire(value) THEN [workers |-> ws, sem |-> value]
    ELSE IF ws[i].state = "waiting"
         THEN Admit([ws EXCEPT ![i].state = "inflight"], value - 1, i + 1)
         ELSE Admit(ws, value, i + 1)

NumInflight(ws) == Cardinality({i \in 1..Len(ws) : ws[i].state = "inflight"})

MutAnyDone(ws) == \E i \in 1..Len(ws) : ws[i].state = "done"

\* gather(*tasks) returns once every task is done
AllDone(ws) == \A i \in 1..Len(ws) : ws[i].state = "done"

\* the exception a bulk operation raises after its enrichment: the one of
\* _resolve, or the KeyError of resp['artist']['name'], resp['album']['name']
\* or resp['playlist']['name'] when the entity of a composite has no name
ResultRaises(oper, songs, named) ==
    IF ResolveRaises(songs) # "none" THEN ResolveRaises(songs)
    ELSE IF oper \in CompositeOps /\ ~named THEN "KeyError"
    ELSE "none"

\* the value a bulk operation returns for its resolved songs
BulkResult(oper, songs) ==
    LET rs == _resolve(songs)
    IN  IF oper = "get_song"
        THEN [kind |-> "Song", count |-> 1, songs |-> <<rs[1]>>, value |-> NULL]
        ELSE [kind |-> oper, count |-> Len(rs), songs |-> rs, value |-> NULL]

\* ---------------------------------------------------------------- steps

Raised(e) == pc' = "raised" /\ error' = e

\* how a bulk operation ends after its enrichment, for the song records and
\* the entity it was sent: the exception raised, or the result returned
Resolved(oper, songs, named) ==
    LET e == ResultRaises(oper, songs, named)
    IN  [error |-> e,
         result |-> IF e = "none" THEN BulkResult(oper, songs) ELSE NoResult]

\* the enrichment is over: the operation resolves its songs, whose name,
\* artist-list and album fields are as the provider sent them, and returns
\* its result, or raises what the resolution raises
Resolve(songs) ==
    \E out \in {Resolved(op, WithFields(songs, f.song), f.named) : f \in Fields} :
        IF out.error # "none"
        THEN Raised(out.error) /\ result' = result
        ELSE pc' = "done" /\ error' = error /\ result' = out.result

\* _patch_song_url is entered: the bulk URL call is issued for the songs
EnterUrl(songs) ==
    /\ tracks' = songs
    /\ pc' = "url"
    /\ error' = error
    /\ calls' = [calls EXCEPT !.url = @ + 1]

\* the primary fetch fails: the *_raw method raises
PrimaryFail ==
    /\ pc = "primary"
    /\ \E o \in Failures :
        /\ resp' = [NoResp EXCEPT !.outcome = o]
        /\ Raised(PrimaryRaw(op, o))
    /\ UNCHANGED <<op, catalogue, tracks, tasks, overtaken, url_resp, workers, sem,
                   result, calls, gate, client>>

\* search_song after search_song_raw returned
SearchSong ==
    /\ pc = "primary" /\ op = "search_song"
    /\ \E r \in Responses(op, catalogue), f \in SongFields :
        LET p == search_song_parse(r)
            full == WithFields(p.songs, f)
        IN  /\ resp' = r
            /\ IF p.error # "none"
               THEN Raised(p.error) /\ result' = result
               ELSE IF ResolveRaises(full) # "none"
               THEN Raised(ResolveRaises(full)) /\ result' = result
               ELSE pc' = "done" /\ error' = error /\ result' = SearchResult(full)
    /\ UNCHANGED <<op, catalogue, tracks, tasks, overtaken, url_resp, workers, sem,
                   calls, gate, client>>

\* get_song_url after get_song_url_raw returned
GetSongUrl ==
    /\ pc = "primary" /\ op = "get_song_url"
    /\ \E r \in Responses(op, catalogue) :
        /\ resp' = r
        /\ result' = [NoResult EXCEPT !.kind = "url", !.value = get_song_url(r)]
    /\ pc' = "done"
    /\ UNCHANGED <<op, catalogue, error, tracks, tasks, overtaken, url_resp, workers,
                   sem, calls, gate, client>>

\* get_song_lyric after get_song_lyric_raw returned
GetSongLyric ==
    /\ pc = "primary" /\ op = "get_song_lyric"
    /\ \E r \in Responses(op, catalogue) :
        /\ resp' = r
        /\ result' = [NoResult EXCEPT !.kind = "lyric", !.value = get_song_lyric(r)]
    /\ pc' = "done"
    /\ UNCHANGED <<op, catalogue, error, tracks, tasks, overtaken, url_resp, workers,
                   sem, calls, gate, client>>

\* get_song, get_artist and get_album after their *_raw method returned, up
\* to the await of the bulk URL call
BulkPrimary(oper, p) ==
    /\ IF p.error # "none"
       THEN Raised(p.error) /\ UNCHANGED <<tracks, calls>>
       ELSE EnterUrl(p.songs)
    /\ UNCHANGED <<op, catalogue, tasks, overtaken, url_resp, workers, sem, result,
                   gate, client>>

GetSong ==
    /\ pc = "primary" /\ op = "get_song"
    /\ \E r \in Responses(op, catalogue) :
        resp' = r /\ BulkPrimary(op, get_song_parse(r))

GetArtist ==
    /\ pc = "primary" /\ op = "get_artist"
    /\ \E r \in Responses(op, catalogue) :
        resp' = r /\ BulkPrimary(op, get_artist_parse(r))

GetAlbum ==
    /\ pc = "primary" /\ op = "get_album"
    /\ \E r \in Responses(op, catalogue) :
        resp' = r /\ BulkPrimary(op, get_album_parse(r))

\* get_playlist after get_playlist_raw returned, up to the await of gather
\* over the chunk tasks or, without chunks, of the bulk URL call.  When the
\* loop over the chunks raises, the tasks created before stay scheduled: the
\* event loop starts them once the caller awaits.
GetPlaylist ==
    /\ pc = "primary" /\ op = "get_playlist"
    /\ \E r \in Responses(op, catalogue) :
        LET p == get_playlist_parse(r)
            ts == PlaylistTasks(r)
            made == CreatedTasks(ts, r.nids)
        IN  /\ resp' = r
            /\ IF p.error # "none"
               THEN Raised(p.error) /\ UNCHANGED <<tracks, tasks, calls>>
               ELSE IF ChunkLoopRaises(r) # "none"
               THEN /\ Raised(ChunkLoopRaises(r))
                    /\ tracks' = p.songs
                    /\ tasks' = made
                    /\ calls' = [calls EXCEPT !.chunk = @ + Len(made)]
               ELSE IF ts # <<>>
               THEN /\ tracks' = p.songs
                    /\ tasks' = ts
                    /\ pc' = "chunks"
                    /\ error' = error
                    /\ calls' = [calls EXCEPT !.chunk = @ + Len(ts)]
               ELSE EnterUrl(p.songs) /\ tasks' = tasks
    /\ UNCHANGED <<op, catalogue, overtaken, url_resp, workers, sem, result, gate, client>>

MutChunkFailRetries(k) ==
    /\ k \in 1..Len(tasks) /\ tasks[k].state = "inflight"
    /\ calls' = [calls EXCEPT !.chunk = @ + 1]
    /\ UNCHANGED <<op, catalogue, pc, error, resp, tracks, tasks, overtaken, url_resp,
                   workers, sem, result, gate, client>>

\* the song-detail call of chunk k fails: patch_tracks raises, and gather, if
\* get_playlist still awaits it, raises that exception in get_playlist
ChunkFail(k) ==
    /\ k \in 1..Len(tasks) /\ tasks[k].state = "inflight"
    /\ \E e \in {get_song_raw(o) : o \in Failures} :
        /\ tasks' = [tasks EXCEPT ![k].state = "done", ![k].exc = e]
        /\ IF pc = "chunks" THEN Raised(e) ELSE UNCHANGED <<pc, error>>
    /\ overtaken' = (overtaken \/ \E x \in 1..(k - 1) : tasks[x].state = "inflight")
    /\ UNCHANGED <<op, catalogue, resp, tracks, url_resp, workers, sem, result,
                   calls, gate, client>>

\* the song-detail call of chunk k returns; when it was the last one gather
\* returns, get_playlist extends tracks and enters _patch_song_url
ChunkReturn(k) ==
    /\ k \in 1..Len(tasks) /\ tasks[k].state = "inflight"
    /\ \E hasSongs \in BOOLEAN :
        LET songs == IF hasSongs THEN Details(SongRawIds(song_ids(tasks[k])), catalogue)
                     ELSE <<>>
            ts == [tasks EXCEPT ![k].state = "done", ![k].songs = songs]
        IN  /\ tasks' = ts
            /\ IF pc = "chunks" /\ \A x \in 1..Len(ts) : ts[x].state = "done"
               THEN EnterUrl(ExtendTracks(tracks, ts, 1))
               ELSE UNCHANGED <<pc, error, tracks, calls>>
    /\ overtaken' = (overtaken \/ \E x \in 1..(k - 1) : tasks[x].state = "inflight")
    /\ UNCHANGED <<op, catalogue, resp, url_resp, workers, sem, result, gate, client>>

\* the bulk URL call fails: get_song_url_raw raises through _patch_song_url
UrlFail ==
    /\ pc = "url"
    /\ \E o \in Failures :
        /\ url_resp' = [NoUrlResp EXCEPT !.outcome = o]
        /\ Raised(get_song_url_raw(o))
    /\ UNCHANGED <<op, catalogue, resp, tracks, tasks, overtaken, workers, sem,
                   result, calls, gate, client>>

\* the bulk URL call returns: _patch_song_url sets the urls, _patch_song_lyric
\* makes its semaphore and one worker per song and awaits gather, which
\* returns at once when there is no worker: the operation then resolves
UrlReturn ==
    /\ pc = "url"
    /\ \E u \in UrlResponses(tracks) :
        LET songs == _patch_song_url(tracks, u)
            a == Admit([i \in 1..Len(songs) |-> NewWorker], SEM_VALUE, 1)
        IN  /\ url_resp' = u
            /\ tracks' = songs
            /\ workers' = a.workers
            /\ sem' = a.sem
            /\ calls' = [calls EXCEPT !.lyric = @ + NumInflight(a.workers)]
            /\ IF songs = <<>>
               THEN Resolve(songs)
               ELSE pc' = "lyric" /\ error' = error /\ result' = result
    /\ UNCHANGED <<op, catalogue, resp, tasks, overtaken, gate, client>>

\* worker i leaves `async with sem`: the permit goes back and the next
\* waiting workers are admitted
Release(ws, raised) == Admit(ws, LeaveSem(sem, raised), 1)

MutLyricFailCancels(i) ==
    /\ i \in 1..Len(workers) /\ workers[i].state = "inflight"
    /\ workers' = [w \in 1..Len(workers) |->
                      IF w = i THEN [state |-> "done", exc |-> "RequestError"]
                      ELSE IF workers[w].state = "done" THEN workers[w]
                      ELSE [workers[w] EXCEPT !.state = "cancelled"]]
    /\ sem' = SEM_VALUE
    /\ IF pc = "lyric" THEN Raised("RequestError") ELSE UNCHANGED <<pc, error>>
    /\ UNCHANGED <<op, catalogue, resp, tracks, tasks, overtaken, url_resp, result,
                   calls, gate, client>>

\* the lyric call of worker i fails: get_song_lyric raises through the worker,
\* and gather, if _patch_song_lyric still awaits it, raises that exception
LyricFail(i) ==
    /\ i \in 1..Len(workers) /\ workers[i].state = "inflight"
    /\ \E e \in {get_song_lyric_raw(o) : o \in Failures} :
        LET a == Release([workers EXCEPT ![i].state = "done", ![i].exc = e], TRUE)
        IN  /\ workers' = a.workers
            /\ sem' = a.sem
            /\ calls' = [calls EXCEPT
                           !.lyric = @ + NumInflight(a.workers) - (NumInflight(workers) - 1)]
            /\ IF pc = "lyric" THEN Raised(e) ELSE UNCHANGED <<pc, error>>
    /\ UNCHANGED <<op, catalogue, resp, tracks, tasks, overtaken, url_resp, result,
                   gate, client>>

\* the lyric call of worker i returns: the worker writes song['lyric']; when
\* it was the last one gather returns and the operation resolves its songs
\* and returns
LyricReturn(i) ==
    /\ i \in 1..Len(workers) /\ workers[i].state = "inflight"
    /\ \E lyric \in {get_song_lyric(r) : r \in ValueResponses(LyricText(tracks[i].id))} :
        LET a == Release([workers EXCEPT ![i].state = "done"], FALSE)
            songs == [tracks EXCEPT ![i].lyric = lyric]
        IN  /\ workers' = a.workers
            /\ sem' = a.sem
            /\ tracks' = songs
            /\ calls' = [calls EXCEPT
                           !.lyric = @ + NumInflight(a.workers) - (NumInflight(workers) - 1)]
            /\ IF pc = "lyric" /\ AllDone(a.workers)
               THEN Resolve(songs)
               ELSE UNCHANGED <<pc, error, result>>
    /\ UNCHANGED <<op, catalogue, resp, tasks, overtaken, url_resp, gate, client>>

Next ==
    \/ PrimaryFail
    \/ SearchSong
    \/ GetSongUrl
    \/ GetSongLyric
    \/ GetSong
    \/ GetArtist
    \/ GetAlbum
    \/ GetPlaylist
    \/ \E k \in 1..MaxChunks + 1 : ChunkFail(k)
    \/ \E k \in 1..MaxChunks + 1 : ChunkReturn(k)
    \/ UrlFail
    \/ UrlReturn
    \/ \E i \in 1..MaxSongs + 1 : LyricFail(i)
    \/ \E i \in 1..MaxSongs + 1 : LyricReturn(i)

Spec == Init /\ [][Next]_vars

\* --------------------------------- the admission gate over many songs
\* _patch_song_lyric over gate.n songs, told by how many workers wait for the
\* semaphore, hold it with their lyric call in flight, or are done.  barrier
\* is where _patch_song_lyric is: "waiting" in gather, "returned", "raised".

GateInit ==
    /\ op \in BulkOps
    /\ catalogue = {}
    /\ pc = "lyric"
    /\ error = "none"
    /\ resp = NoResp
    /\ tracks = <<>>
    /\ tasks = <<>>
    /\ overtaken = FALSE
    /\ url_resp = NoUrlResp
    /\ workers = <<>>
    /\ sem = 0
    /\ result = NoResult
    /\ calls = NoCalls
    /\ client = NoClient
    /\ \E n \in 0..MaxGateSongs :
        gate = [n |-> n, waiting |-> n, inflight |-> 0, done |-> 0, sem |-> SEM_VALUE,
                barrier |-> IF n = 0 THEN "returned" ELSE "waiting"]

GateFrame ==
    UNCHANGED <<op, catalogue, pc, error, resp, tracks, tasks, overtaken, url_resp,
                workers, sem, result, calls, client>>

MutNoWakeup ==
    /\ gate.waiting > 0
    /\ CanAcquire(gate.sem)
    /\ gate.done = 0
    /\ gate' = [gate EXCEPT !.waiting = @ - 1, !.sem = @ - 1, !.inflight = @ + 1]
    /\ GateFrame

\* a worker enters `async with sem` and issues its lyric call
GateAcquire ==
    /\ gate.waiting > 0
    /\ CanAcquire(gate.sem)
    /\ gate' = [gate EXCEPT !.waiting = @ - 1, !.sem = @ - 1, !.inflight = @ + 1]
    /\ GateFrame

\* a lyric call fails: its worker leaves `async with sem` by the exception,
\* which gather raises in _patch_song_lyric unless it has raised already
GateFail ==
    /\ gate.inflight > 0
    /\ gate' = [gate EXCEPT !.inflight = @ - 1, !.sem = LeaveSem(@, TRUE),
                            !.done = @ + 1,
                            !.barrier = IF @ = "waiting" THEN "raised" ELSE @]
    /\ GateFrame

\* a lyric call returns: its worker writes the lyric and leaves `async with
\* sem`; gather returns once every worker is done
GateReturn ==
    /\ gate.inflight > 0
    /\ gate' = [gate EXCEPT !.inflight = @ - 1, !.sem = LeaveSem(@, FALSE),
                            !.done = @ + 1,
                            !.barrier = IF @ = "waiting" /\ gate.done + 1 = gate.n
                                        THEN "returned" ELSE @]
    /\ GateFrame

GateNext == GateAcquire \/ GateFail \/ GateReturn

SpecGate == GateInit /\ [][GateNext]_vars

\* ------------------------------------------ the requests of one client
\* One method of a client is called; each HTTP call it makes goes through
\* request(), which chooses the cookies to send.  The session's cookie jar
\* gains MUSIC_U when a response sets it and loses it when it expires.

\* the methods a caller may call: the public operations and get_song_raw
\* with ids of its own
ClientOps == Ops \cup {"get_song_raw"}

\* the endpoints other than song-detail a method sends requests to
Endpoints(oper) ==
    CASE oper = "search_song" -> {"search"}
      [] oper = "get_song" -> {"url", "lyric"}
      [] oper = "get_artist" -> {"artist", "url", "lyric"}
      [] oper = "get_album" -> {"album", "url", "lyric"}
      [] oper = "get_playlist" -> {"playlist", "url", "lyric"}
      [] oper = "get_song_url" -> {"url"}
      [] oper = "get_song_lyric" -> {"lyric"}
      [] OTHER -> {}

\* the values of _create_secret_key(16).decode()
SecretKeys == {"key1", "key2"}

\* _create_cookies: the cookies holding _ntes_nuid
_create_cookies(key) == {[name |-> "_ntes_nuid", value |-> key]}

MutAlwaysTracking(auth, cookies) == cookies

\* request: the cookies put in kwargs, self._cookies unless the jar holds
\* MUSIC_U for the url
RequestCookies(auth, cookies) == IF ~auth THEN cookies ELSE {}

\* lists of ids a caller hands to get_song_raw: n ids, ascending or descending
IdList(n, desc) == [x \in 1..n |-> IF desc THEN n - x + 1 ELSE x]

CallerIds ==
    {IdList(n, desc) :
        n \in {0, 1, SONG_REQUEST_LIMIT - 1, SONG_REQUEST_LIMIT, SONG_REQUEST_LIMIT + 1,
               SONG_REQUEST_LIMIT + SONG_REQUEST_LIMIT},
        desc \in BOOLEAN}

\* the id lists get_playlist hands to patch_tracks: one per chunk task
ChunkIds ==
    UNION {{song_ids(ts[k]) : k \in 1..Len(ts)} :
             ts \in {PlaylistTasks(r) : r \in PlaylistResponses({})}}

\* the id lists a method hands to get_song_raw
SongCalls(oper) ==
    CASE oper = "get_song" -> {[ids |-> <<1>>, chunk |-> FALSE]}
      [] oper = "get_song_raw" -> {[ids |-> l, chunk |-> FALSE] : l \in CallerIds}
      [] oper = "get_playlist" -> {[ids |-> l, chunk |-> TRUE] : l \in ChunkIds}
      [] OTHER -> {}

\* __init__: a client over a session whose jar may hold MUSIC_U already
ClientInit ==
    /\ op \in ClientOps
    /\ catalogue = {}
    /\ pc = "primary"
    /\ error = "none"
    /\ resp = NoResp
    /\ tracks = <<>>
    /\ tasks = <<>>
    /\ overtaken = FALSE
    /\ url_resp = NoUrlResp
    /\ workers = <<>>
    /\ sem = 0
    /\ result = NoResult
    /\ calls = NoCalls
    /\ gate = NoGate
    /\ \E key \in SecretKeys, auth \in BOOLEAN :
        client = [cookies |-> _create_cookies(key), auth |-> auth, sent |-> NoRequest]

ClientFrame ==
    UNCHANGED <<op, catalogue, pc, error, resp, tracks, tasks, overtaken, url_resp,
                workers, sem, result, calls, gate>>

\* request(), called by a *_raw method other than get_song_raw
Request ==
    /\ \E e \in Endpoints(op) :
        client' = [client EXCEPT
                      !.sent = [NoRequest EXCEPT
                                   !.endpoint = e,
                                   !.auth = client.auth,
                                   !.cookies = RequestCookies(client.auth, client.cookies)]]
    /\ ClientFrame

\* get_song_raw: request() with the ids it keeps
SongRequest ==
    /\ \E c \in SongCalls(op) :
        client' = [client EXCEPT
                      !.sent = [endpoint |-> "song",
                                auth |-> client.auth,
                                cookies |-> RequestCookies(client.auth, client.cookies),
                                given |-> c.ids,
                                ids |-> SongRawIds(c.ids),
                                chunk |-> c.chunk]]
    /\ ClientFrame

\* a response sets MUSIC_U: the session stores it in its jar
SetCookie ==
    /\ ~client.auth
    /\ client' = [client EXCEPT !.auth = TRUE]
    /\ ClientFrame

\* MUSIC_U expires: the jar drops it
ExpireCookie ==
    /\ client.auth
    /\ client' = [client EXCEPT !.auth = FALSE]
    /\ ClientFrame

ClientNext == Request \/ SongRequest \/ SetCookie \/ ExpireCookie

SpecClient == ClientInit /\ [][ClientNext]_vars

\* ------------------------------------------------------------- fairness
\* The event loop wakes a worker waiting for a semaphore that has a permit,
\* and every HTTP call in flight ends, with a response, an error or the
\* session's timeout (ClientTimeout(total=120)).

SpecGateLive ==
    SpecGate /\ WF_vars(GateAcquire) /\ WF_vars(GateFail \/ GateReturn)

\* ------------------------------------------------------------ properties

Ids(songs) == [i \in 1..Len(songs) |-> songs[i].id]

IdSet(songs) == {songs[i].id : i \in 1..Len(songs)}

\* C1: during the lyric enrichment of one operation, over any number of
\* songs and under every interleaving of call completions, the lyric calls
\* issued and not yet completed never number more than 32.
C1_LyricCallsBounded == gate.inflight <= SEM_VALUE

\* more songs than permits: every permit is taken, workers wait, calls have
\* completed
C1_Witness ==
    /\ gate.n > SEM_VALUE
    /\ gate.inflight = SEM_VALUE
    /\ gate.waiting > 0
    /\ gate.done > 0

\* C2: a failed lyric call leaves that song's lyric null and never aborts the
\* operation: the operation does not raise, and once every lyric call has
\* completed it has returned its result.
C2_LyricFailureAbsorbed ==
    \A i \in 1..Len(workers) :
        workers[i].exc # "none" =>
            /\ pc # "raised"
            /\ tracks[i].lyric = NULL
            /\ (AllDone(workers) => pc = "done")

\* C3: in get_playlist a failed chunk call is swallowed: get_playlist does
\* not raise, and goes on to return a Playlist.
C3_ChunkFailureSwallowed ==
    \A k \in 1..Len(tasks) :
        tasks[k].exc # "none" => (pc # "raised" /\ error = "none")

\* C4: a failed bulk URL call is absorbed: the operation does not raise and
\* continues to the lyric enrichment, with a null URL for every song.
C4_UrlFailureAbsorbed ==
    url_resp.outcome \in Failures =>
        /\ pc \in {"lyric", "done"}
        /\ error = "none"
        /\ \A i \in 1..Len(tracks) : tracks[i].url = NULL

\* the entries of the bulk URL response that carry the id
EntriesOf(id) == {x \in 1..Len(url_resp.data) : url_resp.data[x].id = id}

\* C5: after a successful bulk URL call every song's URL is the URL of the
\* response entry with the song's id when that entry's code is 200, and null
\* when its code is not 200 or when no entry has the id (with several entries
\* for one id: the URL of the last one of code 200, null when none has code
\* 200); the resolved songs carry these URLs, and the URL step fails the
\* operation in neither case.
C5_UrlOfEntry ==
    url_resp.outcome = "ok" =>
        /\ \A i \in 1..Len(tracks) :
            LET E == EntriesOf(tracks[i].id)
                S == {x \in E : url_resp.data[x].code = 200}
            IN  /\ E = {} => tracks[i].url = NULL
                /\ \A x \in E :
                    E = {x} =>
                        tracks[i].url =
                            IF url_resp.data[x].code = 200
                            THEN url_resp.data[x].url ELSE NULL
                /\ S = {} => tracks[i].url = NULL
                /\ S # {} => tracks[i].url = url_resp.data[SeqMax(S)].url
        /\ pc = "done" =>
            /\ Len(result.songs) = Len(tracks)
            /\ \A i \in 1..Len(tracks) : result.songs[i].url = tracks[i].url
        /\ pc = "raised" =>
            \/ \E i \in 1..Len(workers) : workers[i].exc # "none"
            \/ /\ \A i \in 1..Len(workers) : workers[i].state = "done"
               /\ error = "KeyError"

\* two resolved songs: one whose only entry has a code other than 200 and
\* whose URL is null, one whose URL is not null
C5_Witness ==
    /\ url_resp.outcome = "ok" /\ url_resp.hasData
    /\ pc = "done"
    /\ \E i, j \in 1..Len(tracks) :
        /\ \E x \in 1..Len(url_resp.data) :
            /\ EntriesOf(tracks[i].id) = {x}
            /\ url_resp.data[x].code # 200
        /\ result.songs[i].url = NULL
        /\ result.songs[j].url # NULL

\* get_playlist has awaited its chunk calls and every one has returned
ChunksJoined ==
    /\ tasks # <<>>
    /\ error # "IndexError"
    /\ \A k \in 1..Len(tasks) : tasks[k].state = "done" /\ tasks[k].exc = "none"

\* C6: when the chunk calls of a playlist have returned, in whatever order,
\* the track list holds the songs of the first page and of the chunks in the
\* order of the playlist's tracks (here: ascending ids), so in ascending
\* chunk index, and that is the order of the songs returned.
C6_ChunkOrder ==
    ChunksJoined =>
        /\ \A a, b \in 1..Len(tracks) : a < b => tracks[a].id < tracks[b].id
        /\ IdSet(tracks) =
            IdSet(resp.songs) \cup UNION {IdSet(tasks[k].songs) : k \in 1..Len(tasks)}
        /\ \A k \in 1..Len(tasks) : \A a \in 1..Len(tracks) :
            tracks[a].id \in IdSet(tasks[k].songs) =>
                /\ \A b \in 1..Len(tracks) :
                    tracks[b].id \in IdSet(resp.songs) => b < a
                /\ \A x \in 1..(k - 1) : \A b \in 1..Len(tracks) :
                    tracks[b].id \in IdSet(tasks[x].songs) => b < a
        /\ pc = "done" => Ids(result.songs) = Ids(tracks)

\* a playlist returned although a later chunk completed before an earlier
\* one, both with songs
C6_Witness ==
    /\ ChunksJoined
    /\ overtaken
    /\ pc = "done"
    /\ Len(tasks) >= 2
    /\ tasks[1].songs # <<>>
    /\ tasks[2].songs # <<>>

\* C7: get_playlist issues no chunk call when trackCount T is at most 1000,
\* and ceil((T - 1000) / 1000) of them when it is more; chunk k holds the
\* ids at the indices [1000k, min(1000(k + 1), T)) (range(i, j) of its
\* task), so the chunks are disjoint, hold at most 1000 ids each and cover
\* exactly [1000, T).
C7_Chunks ==
    (op = "get_playlist" /\ resp.outcome = "ok" /\ resp.key
        /\ resp.nids >= resp.total) =>
        LET T == resp.total
            n == Len(tasks)
        IN  /\ T <= SONG_REQUEST_LIMIT => n = 0
            /\ T > SONG_REQUEST_LIMIT =>
                n = (T - SONG_REQUEST_LIMIT + SONG_REQUEST_LIMIT - 1)
                        \div SONG_REQUEST_LIMIT
            /\ calls.chunk = n
            /\ \A k \in 1..n :
                /\ tasks[k].i = SONG_REQUEST_LIMIT * k
                /\ tasks[k].j = Min(SONG_REQUEST_LIMIT * (k + 1), T)
                /\ tasks[k].j - tasks[k].i \in 1..SONG_REQUEST_LIMIT
                /\ k < n => tasks[k].j = tasks[k + 1].i
            /\ n > 0 => tasks[1].i = SONG_REQUEST_LIMIT /\ tasks[n].j = T

\* trackCount 2500: two chunks, [1000, 2000) and [2000, 2500)
C7_Witness ==
    /\ op = "get_playlist"
    /\ resp.total = 2500
    /\ Len(tasks) = 2
    /\ tasks[1].i = 1000 /\ tasks[1].j = 2000
    /\ tasks[2].i = 2000 /\ tasks[2].j = 2500

C9_NoEmptyCollection ==
    op \in CompositeOps =>
        /\ (resp.outcome = "ok" /\ (~resp.key \/ resp.songs = <<>>)) =>
            /\ pc = "raised"
            /\ error = "DataError"
            /\ calls.url = 0 /\ calls.lyric = 0 /\ calls.chunk = 0
        /\ pc = "done" => result.count > 0

\* C10: search_song raises DataError on a code-200 response whose songs are
\* missing or empty; a SearchResult it returns has count equal to the number
\* of songs in the response, never 0.
C10_SearchCount ==
    (op = "search_song" /\ resp.outcome = "ok") =>
        /\ (~resp.key \/ resp.songs = <<>>) =>
            pc = "raised" /\ error = "DataError" /\ result = NoResult
        /\ pc = "done" =>
            /\ result.kind = "SearchResult"
            /\ result.count = Len(resp.songs)
            /\ Len(result.songs) = result.count
            /\ result.count > 0

\* a code-200 search response with an empty songs list
C10_Witness ==
    /\ op = "search_song"
    /\ resp.outcome = "ok" /\ resp.key /\ resp.songs = <<>>
    /\ pc = "raised" /\ error = "DataError"

\* C11: an operation that returns resolved songs (get_song, get_artist,
\* get_album, get_playlist) never returns a Song whose trimmed name, artist
\* string or album string is empty: it returns songs that have all three,
\* or it fails.
C11_NoEmptyNames ==
    (op \in BulkOps /\ pc = "done") =>
        \A i \in 1..Len(result.songs) :
            /\ result.songs[i].name # NoText
            /\ result.songs[i].artist # NoText
            /\ result.songs[i].album # NoText

\* C12: a lyric worker takes one permit before its call is issued and gives
\* it back when the call completes, by success or by failure: the calls in
\* flight hold exactly the permits that are out, and once every worker has
\* completed all 32 permits are back, also when calls failed.
C12_PermitsReturned ==
    /\ gate.sem >= 0
    /\ gate.sem + gate.inflight = SEM_VALUE
    /\ gate.waiting + gate.inflight + gate.done = gate.n
    /\ gate.done = gate.n => gate.sem = SEM_VALUE

\* more songs than permits, every worker has completed, a call has failed
C12_Witness ==
    /\ gate.n > SEM_VALUE
    /\ gate.done = gate.n
    /\ gate.barrier = "raised"
    /\ gate.sem = SEM_VALUE

\* C13: in the chunk fan-out and in the lyric fan-out a step that completes
\* one sub-call, by failure too, leaves every sibling as it is: a sibling in
\* flight stays in flight until its own call completes, a waiting worker
\* waits or is admitted, and none is ever cancelled.
C13_NoSiblingCancelled ==
    [][/\ Len(tasks) > 0 => Len(tasks') = Len(tasks)
       /\ Len(workers) > 0 => Len(workers') = Len(workers)
       /\ \A k \in 1..Len(tasks) :
            /\ tasks[k].state = "inflight" => tasks'[k].state \in {"inflight", "done"}
            /\ tasks[k].state = "done" => tasks'[k] = tasks[k]
            /\ (\E x \in 1..Len(tasks) : x # k /\ tasks'[x] # tasks[x]) =>
                    tasks'[k] = tasks[k]
       /\ \A i \in 1..Len(workers) :
            /\ workers[i].state = "waiting" =>
                    workers'[i].state \in {"waiting", "inflight"}
            /\ workers[i].state = "inflight" =>
                    workers'[i].state \in {"inflight", "done"}
            /\ workers[i].state = "done" => workers'[i] = workers[i]
            /\ (\E x \in 1..Len(workers) :
                    x # i /\ workers[x].state = "inflight" /\ workers'[x].state = "done") =>
                    (workers[i].state = "inflight" => workers'[i] = workers[i])]_vars

\* a lyric call has failed and the operation has raised while a sibling's
\* call is still in flight
C13_Witness ==
    /\ pc = "raised"
    /\ \E i, j \in 1..Len(workers) :
        /\ workers[i].exc # "none"
        /\ workers[j].state = "inflight"

\* C14: no call is issued twice.  The primary endpoint is called once, every
\* chunk task has one call and there are no more tasks than chunks, the URL
\* endpoint is called at most once, the lyric endpoint once for each worker
\* admitted and never for more workers than songs; an operation that returns
\* S resolved songs after K chunk calls has issued 1 + K + 1 + S calls.
C14_NoRetry ==
    /\ calls.primary = 1
    /\ calls.chunk = Len(tasks)
    /\ (resp.outcome = "ok" /\ resp.key /\ resp.total > SONG_REQUEST_LIMIT) =>
            Len(tasks) <= (resp.total - 1) \div SONG_REQUEST_LIMIT
    /\ (resp.outcome # "ok" \/ ~resp.key \/ resp.total <= SONG_REQUEST_LIMIT) =>
            Len(tasks) = 0
    /\ calls.url <= 1
    /\ calls.lyric = Cardinality({i \in 1..Len(workers) : workers[i].state # "waiting"})
    /\ Len(workers) \in {0, Len(tracks)}
    /\ (op \in BulkOps /\ pc = "done") =>
        /\ calls.chunk = Len(tasks)
        /\ calls.primary + calls.chunk + calls.url + calls.lyric =
                1 + Len(tasks) + 1 + Len(result.songs)
    /\ (op \notin BulkOps) => calls = [NoCalls EXCEPT !.primary = 1]

\* a playlist of two chunks and two songs returned, after six calls
C14_Witness ==
    /\ op = "get_playlist" /\ pc = "done"
    /\ Len(tasks) = 2
    /\ Len(result.songs) = 2
    /\ calls = [primary |-> 1, chunk |-> 2, url |-> 1, lyric |-> 2]

\* C15: the tracking cookie minted at construction stays as it is through
\* every request of every method, and a request carries it exactly when the
\* session's jar held no MUSIC_U for the url when the request was made.
C15_TrackingCookie ==
    /\ [](client.sent.endpoint # "none" =>
            /\ ~client.sent.auth => client.sent.cookies = client.cookies
            /\ client.sent.auth => client.sent.cookies = {}
            /\ client.cookies # {})
    /\ [][client'.cookies = client.cookies]_vars

\* a request made while the jar held MUSIC_U went without the tracking
\* cookie, and the jar has lost MUSIC_U since
C15_Witness ==
    /\ client.sent.endpoint = "lyric"
    /\ client.sent.auth
    /\ client.sent.cookies = {}
    /\ ~client.auth
    /\ \E key \in SecretKeys : client.cookies = _create_cookies(key)

\* C16: a composite operation runs its steps one after the other: a chunk
\* call is issued only after the primary fetch returned, the URL call only
\* when every chunk call has completed, a lyric call only after the URL call
\* returned, and the songs are resolved only when every lyric call has
\* completed; calls of two steps are never in flight together.
C16_StepOrder ==
    op \in CompositeOps =>
        LET chunking == \E k \in 1..Len(tasks) : tasks[k].state = "inflight"
            lyricing == \E i \in 1..Len(workers) : workers[i].state # "done"
        IN  /\ (calls.chunk > 0 \/ calls.url > 0) => resp.outcome = "ok"
            /\ calls.url > 0 => ~chunking
            /\ calls.lyric > 0 => url_resp.outcome = "ok"
            /\ Len(workers) > 0 => url_resp.outcome = "ok"
            /\ result # NoResult => (~lyricing /\ url_resp.outcome = "ok")
            /\ (error = "KeyError" /\ pc = "raised") => ~lyricing
            /\ pc = "primary" => (calls.chunk = 0 /\ calls.url = 0 /\ calls.lyric = 0)
            /\ pc = "chunks" => (chunking /\ calls.url = 0 /\ calls.lyric = 0)
            /\ pc = "url" => (~chunking /\ url_resp.outcome = "pending" /\ calls.lyric = 0)
            /\ pc = "lyric" => (~chunking /\ lyricing)

\* a playlist returned after chunk calls that overtook one another, a URL
\* call and two lyric calls
C16_Witness ==
    /\ op = "get_playlist" /\ pc = "done"
    /\ overtaken
    /\ calls.chunk = 2 /\ calls.url = 1 /\ calls.lyric = 2
    /\ result.count = 2

\* C17: a song-detail request never carries more than 1000 ids: of the ids
\* handed to get_song_raw it carries the first 1000 in their order (all of
\* them when there are no more), and the ids of a pagination chunk of
\* get_playlist all go, a chunk having at most 1000.
C17_AtMostLimitIds ==
    client.sent.endpoint = "song" =>
        LET given == client.sent.given
            ids == client.sent.ids
        IN  /\ Len(ids) <= SONG_REQUEST_LIMIT
            /\ Len(ids) = Min(Len(given), SONG_REQUEST_LIMIT)
            /\ \A x \in 1..Len(ids) : ids[x] = given[x]
            /\ client.sent.chunk => (Len(given) \in 1..SONG_REQUEST_LIMIT /\ ids = given)

\* get_song_raw was handed 1001 descending ids and sent the first 1000
C17_Witness ==
    /\ client.sent.endpoint = "song"
    /\ Len(client.sent.given) = SONG_REQUEST_LIMIT + 1
    /\ Len(client.sent.ids) = SONG_REQUEST_LIMIT
    /\ client.sent.ids[1] = SONG_REQUEST_LIMIT + 1
    /\ client.sent.ids[SONG_REQUEST_LIMIT] = 2

\* C18: when a bulk operation has finished, by returning or by raising, no
\* chunk call and no lyric call it started is in flight and no worker waits
\* for the semaphore.
C18_NothingLeftRunning ==
    (op \in BulkOps /\ pc \in {"done", "raised"}) =>
        /\ \A k \in 1..Len(tasks) : tasks[k].state = "done"
        /\ \A i \in 1..Len(workers) : workers[i].state = "done"

\* C19: a public operation that fails raises RequestError, ResponseError or
\* DataError, whatever the shape of the code-200 responses.
C19_ThreeErrorKinds ==
    pc = "raised" => error \in {"RequestError", "ResponseError", "DataError"}

\* C20: when every call that is in flight ends and every step that can be
\* taken is taken, the lyric fan-out over any number of songs comes to its
\* end: every worker waiting for the semaphore is admitted, every call
\* completes and gather is passed, by returning or by raising.
C20_FanOutEnds ==
    <>[](/\ gate.waiting = 0
         /\ gate.inflight = 0
         /\ gate.done = gate.n
         /\ gate.barrier \in {"returned", "raised"})

\* more songs than permits: workers have waited, and all are done
C20_Witness ==
    /\ gate.n > SEM_VALUE
    /\ gate.waiting = 0
    /\ gate.done = gate.n
    /\ gate.barrier = "returned"

====
